---- MODULE Spec2Model ----
(***************************************************************************)
(* ConvertEase (src/src/App.tsx): the React component App, its handlers    *)
(* handleFileSelect, handleConvert and handleDownload, and the WAV encoder *)
(* that handleDownload runs on the rendered AudioBuffer.                   *)
(*                                                                         *)
(* Numbers.  A sample is a float: a finite value num / SampleDen, NaN, or  *)
(* +/-Infinity.  SampleDen is a power of two, so every finite sample of    *)
(* the model is an exact float32 and its product with 0x7FFF is an exact   *)
(* double.  Header values stay below 2^31 in the model, where ToUint32 is  *)
(* the identity; the bytes are still produced by division, as DataView     *)
(* does.                                                                   *)
(***************************************************************************)
EXTENDS Integers, Sequences, FiniteSets, TLC

VARIABLES
    selectedFile,     \* useState<File | null>: a file name, or NoFile
    mediaType,        \* the tab: 'audio' | 'image' | 'video'
    fileType,         \* detected type of the selected file
    targetFormat,     \* the <select>'s value
    conversionState,  \* [status, message]
    loaded,           \* FFmpeg core loaded
    ffmpegPc,         \* position of the loadFFmpeg effect
    timers,           \* pending setTimeout callbacks of handleConvert
    convertJob,       \* the video branch of handleConvert, between its awaits
    dl,               \* the running handleDownload call: its position and closure
    renderedBuffer,   \* the AudioBuffer startRendering resolved with
    view,             \* DataView over the ArrayBuffer: a sequence of bytes
    offset,           \* write offset of the sample loop
    i,                \* frame index of the sample loop
    channel,          \* channel index of the sample loop
    delivered         \* the artifacts handed to the browser's download

vars == <<selectedFile, mediaType, fileType, targetFormat, conversionState,
          loaded, ffmpegPc, timers, convertJob, dl, renderedBuffer, view,
          offset, i, channel, delivered>>

uiVars == <<selectedFile, mediaType, fileType, targetFormat, loaded, ffmpegPc,
            timers, convertJob>>

encVars == <<renderedBuffer, view, offset, i, channel>>

\* ------------------------------------------------------------------ bounds

\* Largest numberOfChannels * length of a generated AudioBuffer.
MaxTotalSamples == 3

\* Largest numberOfChannels of a generated AudioBuffer.
MaxChannels == 6

\* Most artifacts one run delivers: a download or a video conversion starts
\* only while fewer were delivered.
MaxDeliveries == 1

\* Most asynchronous operations in flight at once: pending setTimeout
\* callbacks, a video conversion between its awaits, a download between its
\* awaits.
MaxPending == 1

\* --------------------------------------------------------------- constants

\* "44 bytes for header"
HeaderSize == 44

\* 0x7FFF
Scale == 32767

\* Samples are num / SampleDen.
SampleDen == 2

\* ----------------------------------------------------------------- samples

Finite(n) == [kind |-> "finite", num |-> n]
NaN == [kind |-> "nan", num |-> 0]
PosInf == [kind |-> "inf", num |-> 1]
NegInf == [kind |-> "inf", num |-> -1]

\* The float n (an integer).
Num(n) == Finite(n * SampleDen)

\* a <= b on non-NaN floats.
Le(a, b) ==
    IF a.kind = "inf" /\ a.num < 0 THEN TRUE
    ELSE IF b.kind = "inf" /\ b.num > 0 THEN TRUE
    ELSE IF a.kind = "inf" \/ b.kind = "inf" THEN FALSE
    ELSE a.num <= b.num

\* Math.min(a, b): NaN if either is NaN.
MathMin(a, b) ==
    IF a.kind = "nan" \/ b.kind = "nan" THEN NaN
    ELSE IF Le(a, b) THEN a ELSE b

\* Math.max(a, b): NaN if either is NaN.
MathMax(a, b) ==
    IF a.kind = "nan" \/ b.kind = "nan" THEN NaN
    ELSE IF Le(a, b) THEN b ELSE a

\* x * k for an integer k > 0.
Times(x, k) ==
    IF x.kind = "finite" THEN Finite(x.num * k) ELSE x

\* Math.floor in place of truncation toward zero.
ToInt16BitsFloor(x) ==
    IF x.kind # "finite" THEN 0
    ELSE (x.num \div SampleDen) % 65536

\* ToIntegerOrInfinity followed by modulo 2^16 (ECMAScript ToInt16/ToUint16):
\* NaN and the infinities give 0, a finite value is truncated toward zero.
ToInt16Bits(x) ==
    IF x.kind # "finite" THEN 0
    ELSE LET t == IF x.num >= 0 THEN x.num \div SampleDen
                  ELSE -((-x.num) \div SampleDen)
         IN  t % 65536

\* ---------------------------------------------------------------- DataView

\* charCodeAt of the characters the header strings use.
charCodeAt(c) ==
    CASE c = "R" -> 82 [] c = "I" -> 73 [] c = "F" -> 70
      [] c = "W" -> 87 [] c = "A" -> 65 [] c = "V" -> 86 [] c = "E" -> 69
      [] c = "f" -> 102 [] c = "m" -> 109 [] c = "t" -> 116 [] c = " " -> 32
      [] c = "d" -> 100 [] c = "a" -> 97

\* new ArrayBuffer(n): n zero bytes.
ArrayBuffer(n) == [k \in 1..n |-> 0]

\* view.setUint8(off, val)
setUint8(v, off, val) == [v EXCEPT ![off + 1] = val % 256]

\* The littleEndian argument left out: big-endian.
setUint16BE(v, off, val) ==
    [v EXCEPT ![off + 1] = (val \div 256) % 256,
              ![off + 2] = val % 256]

\* view.setUint16(off, val, true)
setUint16(v, off, val) ==
    [v EXCEPT ![off + 1] = val % 256,
              ![off + 2] = (val \div 256) % 256]

\* The littleEndian argument left out: big-endian.
setUint32BE(v, off, val) ==
    [v EXCEPT ![off + 1] = (val \div 16777216) % 256,
              ![off + 2] = (val \div 65536) % 256,
              ![off + 3] = (val \div 256) % 256,
              ![off + 4] = val % 256]

\* view.setUint32(off, val, true)
setUint32(v, off, val) ==
    [v EXCEPT ![off + 1] = val % 256,
              ![off + 2] = (val \div 256) % 256,
              ![off + 3] = (val \div 65536) % 256,
              ![off + 4] = (val \div 16777216) % 256]

\* view.setInt16(off, x, true) for a float x
setInt16(v, off, x) == setUint16(v, off, ToInt16Bits(x))

\* The loop started at i = 1: the first character is never written.
writeStringSkipFirst(v, off, string) ==
    [k \in DOMAIN v |->
        IF k - 1 - off \in 1..(Len(string) - 1)
        THEN charCodeAt(string[k - off]) % 256
        ELSE v[k]]

\* writeString(view, off, string): string is a sequence of characters.
RECURSIVE writeString(_, _, _)
writeString(v, off, string) ==
    IF string = <<>> THEN v
    ELSE writeString(setUint8(v, off, charCodeAt(Head(string))),
                     off + 1, Tail(string))

\* ----------------------------------------------------------- formats, files

\* const formats = { audio: [...], image: [...], video: [...] }
formats ==
    [audio |-> <<"mp3", "wav", "ogg", "m4a">>,
     image |-> <<"jpg", "png", "gif", "webp", "pdf">>,
     video |-> <<"mp4", "avi", "mkv", "mov">>]

MediaTypes == {"audio", "image", "video"}

Range(s) == {s[k] : k \in DOMAIN s}

\* format.toUpperCase()
toUpperCase(f) ==
    CASE f = "mp3" -> "MP3" [] f = "wav" -> "WAV" [] f = "ogg" -> "OGG"
      [] f = "m4a" -> "M4A" [] f = "jpg" -> "JPG" [] f = "png" -> "PNG"
      [] f = "gif" -> "GIF" [] f = "webp" -> "WEBP" [] f = "pdf" -> "PDF"
      [] f = "mp4" -> "MP4" [] f = "avi" -> "AVI" [] f = "mkv" -> "MKV"
      [] f = "mov" -> "MOV"

NoFile == "null"

\* The files the user can pick, by name.
Files == {"tone.wav", "clip.mp4", "pic.png", "doc.pdf", "notes.txt"}

\* file.type, split at the slash
FileMime(f) ==
    CASE f = "tone.wav" -> <<"audio", "wav">>
      [] f = "clip.mp4" -> <<"video", "mp4">>
      [] f = "pic.png" -> <<"image", "png">>
      [] f = "doc.pdf" -> <<"application", "pdf">>
      [] f = "notes.txt" -> <<"text", "plain">>

\* --------------------------------------------------------------- AudioBuffer

NoBuffer ==
    [numberOfChannels |-> 0, length |-> 0, sampleRate |-> 0, channelData |-> <<>>]

SampleValues == {Finite(k) : k \in -3..3} \cup {NaN, PosInf, NegInf}

SampleRates == {44100, 96000}

Shapes ==
    {s \in (1..MaxChannels) \X (0..MaxTotalSamples) : s[1] * s[2] <= MaxTotalSamples}

AudioBuffersOfShape(nc, n) ==
    {[numberOfChannels |-> nc, length |-> n, sampleRate |-> r, channelData |-> cd] :
        r \in SampleRates, cd \in [1..nc -> [1..n -> SampleValues]]}

GeneratedAudios == UNION {AudioBuffersOfShape(s[1], s[2]) : s \in Shapes}

\* numberOfChannels = 1, sampleRate = 44100, channelData = [[0.0, 0.5, -0.5, 1.0]]
RoundTripAudio ==
    [numberOfChannels |-> 1, length |-> 4, sampleRate |-> 44100,
     channelData |-> <<<<Finite(0), Finite(1), Finite(-1), Finite(2)>>>>]

\* numberOfChannels = 2, channelData = [[1.0, -1.0], [0.0, 0.0]]
StereoAudio ==
    [numberOfChannels |-> 2, length |-> 2, sampleRate |-> 44100,
     channelData |-> <<<<Finite(2), Finite(-2)>>, <<Finite(0), Finite(0)>>>>]

\* One NaN sample between two finite ones.
NaNAudio ==
    [numberOfChannels |-> 1, length |-> 3, sampleRate |-> 44100,
     channelData |-> <<<<Finite(1), NaN, Finite(-2)>>>>]

\* One stereo frame, one of its samples NaN.
ClipAudio ==
    [numberOfChannels |-> 2, length |-> 1, sampleRate |-> 44100,
     channelData |-> <<<<NaN>>, <<Finite(-2)>>>>]

\* Three channels of two frames.
SurroundAudio ==
    [numberOfChannels |-> 3, length |-> 2, sampleRate |-> 96000,
     channelData |-> <<<<Finite(1), Finite(-1)>>, <<Finite(2), Finite(-2)>>,
                       <<Finite(0), Finite(3)>>>>]

\* What startRendering can resolve with in the encoder's own specification.
DecodedAudios ==
    GeneratedAudios \cup {RoundTripAudio, StereoAudio, NaNAudio, SurroundAudio}

\* Every channel read from channel 0.
getChannelDataFirst(buf, c, k) == buf.channelData[1][k + 1]

\* renderedBuffer.getChannelData(c)[k]
getChannelData(buf, c, k) == buf.channelData[c + 1][k + 1]

\* ------------------------------------------------------------ conversionState

Idle == [status |-> "idle", message |-> <<>>]

State(st, msg) == [status |-> st, message |-> msg]

NoDownload ==
    [pc |-> "idle", selectedFile |-> NoFile, fileType |-> "audio", targetFormat |-> "mp3"]

NoConvert ==
    [pc |-> "idle", selectedFile |-> NoFile, targetFormat |-> "mp3"]

\* ------------------------------------------------- handleDownload: encoder

\* const totalSamples = samplesPerChannel * numberOfChannels
totalSamples(buf) == buf.length * buf.numberOfChannels

\* One byte per sample instead of two.
bufferSizeOneBytePerSample(buf) == HeaderSize + totalSamples(buf)

\* const bufferSize = 44 + (totalSamples * 2)
bufferSize(buf) == HeaderSize + (totalSamples(buf) * 2)

\* The locals of the encoder go out of scope.
ResetEnc ==
    /\ renderedBuffer' = NoBuffer
    /\ view' = <<>>
    /\ offset' = 0
    /\ i' = 0
    /\ channel' = 0

\* A catch block that starts the download over instead of reporting.
DownloadCatchRetries ==
    /\ conversionState' = conversionState
    /\ dl' = [dl EXCEPT !.pc = "arrayBuffer"]
    /\ ResetEnc

\* The catch block of handleDownload.
DownloadCatch ==
    /\ conversionState' =
         State("error", <<"Error processing the", dl.fileType, "file. Please try again.">>)
    /\ dl' = NoDownload
    /\ ResetEnc

\* The AudioFormat code taken from the selected target format: the bytes depend
\* on the UI state.
WriteHeaderByFormat ==
    /\ dl.pc = "header"
    /\ LET numberOfChannels == renderedBuffer.numberOfChannels
           v0 == ArrayBuffer(bufferSize(renderedBuffer))
           v1 == writeString(v0, 0, <<"R", "I", "F", "F">>)
           v2 == setUint32(v1, 4, bufferSize(renderedBuffer) - 8)
           v3 == writeString(v2, 8, <<"W", "A", "V", "E">>)
           v4 == writeString(v3, 12, <<"f", "m", "t", " ">>)
           v5 == setUint32(v4, 16, 16)
           v6 == setUint16(v5, 20, IF dl.targetFormat = "wav" THEN 1 ELSE 85)
           v7 == setUint16(v6, 22, numberOfChannels)
           v8 == setUint32(v7, 24, renderedBuffer.sampleRate)
           v9 == setUint32(v8, 28, renderedBuffer.sampleRate * numberOfChannels * 2)
           v10 == setUint16(v9, 32, numberOfChannels * 2)
           v11 == setUint16(v10, 34, 16)
           v12 == writeString(v11, 36, <<"d", "a", "t", "a">>)
           v13 == setUint32(v12, 40, totalSamples(renderedBuffer) * 2)
       IN  /\ view' = v13
           /\ offset' = HeaderSize
           /\ i' = 0
           /\ channel' = 0
    /\ dl' = [dl EXCEPT !.pc = "samples"]
    /\ UNCHANGED <<uiVars, conversionState, renderedBuffer, delivered>>

\* Lines 166-203: sizes, allocation, the 44-byte header, let offset = 44.
WriteHeader ==
    /\ dl.pc = "header"
    /\ LET numberOfChannels == renderedBuffer.numberOfChannels
           v0 == ArrayBuffer(bufferSize(renderedBuffer))
           v1 == writeString(v0, 0, <<"R", "I", "F", "F">>)
           v2 == setUint32(v1, 4, bufferSize(renderedBuffer) - 8)
           v3 == writeString(v2, 8, <<"W", "A", "V", "E">>)
           v4 == writeString(v3, 12, <<"f", "m", "t", " ">>)
           v5 == setUint32(v4, 16, 16)
           v6 == setUint16(v5, 20, 1)
           v7 == setUint16(v6, 22, numberOfChannels)
           v8 == setUint32(v7, 24, renderedBuffer.sampleRate)
           v9 == setUint32(v8, 28, renderedBuffer.sampleRate * numberOfChannels * 2)
           v10 == setUint16(v9, 32, numberOfChannels * 2)
           v11 == setUint16(v10, 34, 16)
           v12 == writeString(v11, 36, <<"d", "a", "t", "a">>)
           v13 == setUint32(v12, 40, totalSamples(renderedBuffer) * 2)
       IN  /\ view' = v13
           /\ offset' = HeaderSize
           /\ i' = 0
           /\ channel' = 0
    /\ dl' = [dl EXCEPT !.pc = "samples"]
    /\ UNCHANGED <<uiVars, conversionState, renderedBuffer, delivered>>

\* Negative samples scaled by 0x8000, the full 16-bit range.
int16SampleFullRange(sample) ==
    LET s == MathMax(Num(-1), MathMin(Num(1), sample))
    IN  IF s.kind = "finite" /\ s.num < 0 THEN Times(s, Scale + 1) ELSE Times(s, Scale)

\* The scaling without the clamp.
int16SampleNoClamp(sample) == Times(sample, Scale)

\* Math.max(-1, Math.min(1, sample)) * 0x7FFF
int16Sample(sample) == Times(MathMax(Num(-1), MathMin(Num(1), sample)), Scale)

\* The loops nested the other way round: channel outside, frame inside.
WriteSampleChannelMajor ==
    /\ dl.pc = "samples"
    /\ i < renderedBuffer.length
    /\ channel < renderedBuffer.numberOfChannels
    /\ LET sample == getChannelData(renderedBuffer, channel, i)
       IN  IF offset + 2 > Len(view)
           THEN DownloadCatch
           ELSE /\ view' = setInt16(view, offset, int16Sample(sample))
                /\ offset' = offset + 2
                /\ IF i + 1 < renderedBuffer.length
                   THEN i' = i + 1 /\ channel' = channel
                   ELSE IF channel + 1 < renderedBuffer.numberOfChannels
                        THEN i' = 0 /\ channel' = channel + 1
                        ELSE i' = renderedBuffer.length /\ channel' = 0
                /\ UNCHANGED <<conversionState, dl, renderedBuffer>>
    /\ UNCHANGED <<uiVars, delivered>>

\* The write offset advanced by one byte per sample instead of two.
WriteSampleStepOne ==
    /\ dl.pc = "samples"
    /\ i < renderedBuffer.length
    /\ channel < renderedBuffer.numberOfChannels
    /\ LET sample == getChannelData(renderedBuffer, channel, i)
       IN  IF offset + 2 > Len(view)
           THEN DownloadCatch
           ELSE /\ view' = setInt16(view, offset, int16Sample(sample))
                /\ offset' = offset + 1
                /\ IF channel + 1 < renderedBuffer.numberOfChannels
                   THEN channel' = channel + 1 /\ i' = i
                   ELSE channel' = 0 /\ i' = i + 1
                /\ UNCHANGED <<conversionState, dl, renderedBuffer>>
    /\ UNCHANGED <<uiVars, delivered>>

\* One pass of the inner loop body, lines 205-211, and the loop headers'
\* increments.  A write past the buffer throws RangeError into the catch.
WriteSample ==
    /\ dl.pc = "samples"
    /\ i < renderedBuffer.length
    /\ channel < renderedBuffer.numberOfChannels
    /\ LET sample == getChannelData(renderedBuffer, channel, i)
       IN  IF offset + 2 > Len(view)
           THEN DownloadCatch
           ELSE /\ view' = setInt16(view, offset, int16Sample(sample))
                /\ offset' = offset + 2
                /\ IF channel + 1 < renderedBuffer.numberOfChannels
                   THEN channel' = channel + 1 /\ i' = i
                   ELSE channel' = 0 /\ i' = i + 1
                /\ UNCHANGED <<conversionState, dl, renderedBuffer>>
    /\ UNCHANGED <<uiVars, delivered>>

\* The sample loop has run to its end.
LoopDone == dl.pc = "samples" /\ i >= renderedBuffer.length

\* Lines 214-229: the Blob, the link, link.click().
Deliver ==
    /\ LoopDone
    /\ delivered' = Append(delivered,
          [bytes |-> view,
           type |-> <<"audio", dl.targetFormat>>,
           download |-> <<dl.selectedFile, " - ConvertEase.", dl.targetFormat>>])
    /\ dl' = NoDownload
    /\ ResetEnc
    /\ UNCHANGED <<uiVars, conversionState>>

\* Lines 214-229 throwing (the browser refuses the Blob, the URL or the click).
DeliverThrows ==
    /\ LoopDone
    /\ DownloadCatch
    /\ UNCHANGED <<uiVars, delivered>>

\* ------------------------------------------- the encoder's own specification

\* handleDownload of an audio file, at the point where startRendering has
\* resolved with any AudioBuffer of DecodedAudios.
InitEncode ==
    /\ selectedFile = "tone.wav"
    /\ mediaType = "audio"
    /\ fileType = "audio"
    /\ targetFormat = "mp3"
    /\ conversionState = State("done", <<"Converted to", "MP3", "successfully!">>)
    /\ loaded = TRUE
    /\ ffmpegPc = "loaded"
    /\ timers = <<>>
    /\ convertJob = NoConvert
    /\ dl = [pc |-> "header", selectedFile |-> "tone.wav", fileType |-> "audio",
             targetFormat |-> "mp3"]
    /\ renderedBuffer \in DecodedAudios
    /\ view = <<>>
    /\ offset = 0
    /\ i = 0
    /\ channel = 0
    /\ delivered = <<>>

NextEncode == WriteHeader \/ WriteSample \/ Deliver \/ DeliverThrows

SpecEncode == InitEncode /\ [][NextEncode]_vars

\* ------------------------------------------------------------------ the app

\* handleDownload's encoder is running: synchronous code, nothing interleaves.
Busy == dl.pc \in {"header", "samples"}

\* What decodeAudioData and startRendering can produce from the picked file.
AppAudios == {ClipAudio}

\* Asynchronous operations in flight.
Pending ==
    Len(timers) + (IF convertJob.pc = "idle" THEN 0 ELSE 1)
                + (IF dl.pc = "idle" THEN 0 ELSE 1)

Init ==
    /\ selectedFile = NoFile
    /\ mediaType = "audio"
    /\ fileType = "audio"
    /\ targetFormat = "mp3"
    /\ conversionState = Idle
    /\ loaded = FALSE
    /\ ffmpegPc = "loading"
    /\ timers = <<>>
    /\ convertJob = NoConvert
    /\ dl = NoDownload
    /\ renderedBuffer = NoBuffer
    /\ view = <<>>
    /\ offset = 0
    /\ i = 0
    /\ channel = 0
    /\ delivered = <<>>

\* loadFFmpeg: ffmpeg.load resolved, setLoaded(true).
LoadFFmpegResolved ==
    /\ ~Busy
    /\ ffmpegPc = "loading"
    /\ loaded' = TRUE
    /\ ffmpegPc' = "loaded"
    /\ UNCHANGED <<selectedFile, mediaType, fileType, targetFormat, conversionState,
                   timers, convertJob, dl, encVars, delivered>>

\* loadFFmpeg: toBlobURL or ffmpeg.load rejected; the catch only logs.
LoadFFmpegRejected ==
    /\ ~Busy
    /\ ffmpegPc = "loading"
    /\ ffmpegPc' = "failed"
    /\ UNCHANGED <<selectedFile, mediaType, fileType, targetFormat, conversionState,
                   loaded, timers, convertJob, dl, encVars, delivered>>

\* A tab button's onClick.
SelectTab(type) ==
    /\ ~Busy
    /\ mediaType' = type
    /\ targetFormat' = formats[type][1]
    /\ UNCHANGED <<selectedFile, fileType, conversionState, loaded, ffmpegPc, timers,
                   convertJob, dl, encVars, delivered>>

\* handleFileSelect with a file in event.target.files.
handleFileSelect(file) ==
    /\ ~Busy
    /\ LET type == FileMime(file)
       IN  IF type[1] = "audio"
           THEN /\ fileType' = "audio"
                /\ selectedFile' = file
                /\ conversionState' = Idle
           ELSE IF type[1] = "video"
           THEN /\ fileType' = "video"
                /\ selectedFile' = file
                /\ conversionState' = Idle
           ELSE IF type[1] = "image" \/ type = <<"application", "pdf">>
           THEN /\ fileType' = "image"
                /\ selectedFile' = file
                /\ conversionState' = Idle
           ELSE /\ conversionState' =
                     State("error", <<"Please select an audio, video, image or document file">>)
                /\ UNCHANGED <<fileType, selectedFile>>
    /\ UNCHANGED <<mediaType, targetFormat, loaded, ffmpegPc, timers, convertJob, dl,
                   encVars, delivered>>

\* The <select>'s onChange: rendered with a file selected, its options are
\* formats[mediaType].
SelectFormat(f) ==
    /\ ~Busy
    /\ selectedFile # NoFile
    /\ f \in Range(formats[mediaType])
    /\ targetFormat' = f
    /\ UNCHANGED <<selectedFile, mediaType, fileType, conversionState, loaded, ffmpegPc,
                   timers, convertJob, dl, encVars, delivered>>

\* The Convert button is rendered and not disabled.
ConvertEnabled ==
    /\ selectedFile # NoFile
    /\ conversionState.status \notin {"converting", "uploading"}

\* handleConvert up to its first await (video) or to its end (audio, image).
\* setConversionState('uploading') is overwritten in the same tick.
handleConvert ==
    /\ ~Busy
    /\ ConvertEnabled
    /\ IF ~loaded
       THEN UNCHANGED <<conversionState, convertJob, timers>>
       ELSE IF fileType = "video"
       THEN /\ Pending < MaxPending
            /\ Len(delivered) < MaxDeliveries
            /\ conversionState' = State("converting", <<>>)
            /\ convertJob' = [pc |-> "fetchFile", selectedFile |-> selectedFile,
                              targetFormat |-> targetFormat]
            /\ UNCHANGED timers
       ELSE /\ Pending < MaxPending
            /\ conversionState' = State("converting", <<>>)
            /\ timers' = Append(timers, [targetFormat |-> targetFormat])
            /\ UNCHANGED convertJob
    /\ UNCHANGED <<selectedFile, mediaType, fileType, targetFormat, loaded, ffmpegPc,
                   dl, encVars, delivered>>

\* The setTimeout callback of handleConvert, 2000 ms after it was set.
TimerFires ==
    /\ ~Busy
    /\ timers # <<>>
    /\ conversionState' =
         State("done", <<"Converted to", toUpperCase(Head(timers).targetFormat),
                         "successfully!">>)
    /\ timers' = Tail(timers)
    /\ UNCHANGED <<selectedFile, mediaType, fileType, targetFormat, loaded, ffmpegPc,
                   convertJob, dl, encVars, delivered>>

\* handleConvert, video branch: fetchFile, then ffmpeg.exec resolved.
ConvertAwaitResolved ==
    /\ ~Busy
    /\ convertJob.pc \in {"fetchFile", "exec"}
    /\ convertJob' = [convertJob EXCEPT !.pc = IF @ = "fetchFile" THEN "exec" ELSE "readFile"]
    /\ UNCHANGED <<selectedFile, mediaType, fileType, targetFormat, conversionState,
                   loaded, ffmpegPc, timers, dl, encVars, delivered>>

\* handleConvert, video branch: readFile resolved; the Blob, link.click(), 'done'.
\* The engine's output bytes are opaque to the model.
ConvertReadFileResolved ==
    /\ ~Busy
    /\ convertJob.pc = "readFile"
    /\ delivered' = Append(delivered,
          [bytes |-> <<>>,
           type |-> <<"video", convertJob.targetFormat>>,
           download |-> <<convertJob.selectedFile, " - ConvertEase.",
                          convertJob.targetFormat>>])
    /\ conversionState' =
         State("done", <<"Video converted to", toUpperCase(convertJob.targetFormat),
                         "successfully!">>)
    /\ convertJob' = NoConvert
    /\ UNCHANGED <<selectedFile, mediaType, fileType, targetFormat, loaded, ffmpegPc,
                   timers, dl, encVars>>

\* handleConvert, video branch: an await rejected; the catch block.
ConvertAwaitRejected ==
    /\ ~Busy
    /\ convertJob.pc # "idle"
    /\ conversionState' = State("error", <<"Error converting video. Please try again.">>)
    /\ convertJob' = NoConvert
    /\ UNCHANGED <<selectedFile, mediaType, fileType, targetFormat, loaded, ffmpegPc,
                   timers, dl, encVars, delivered>>

\* The Download button is rendered.
DownloadEnabled ==
    /\ selectedFile # NoFile
    /\ conversionState.status = "done"

\* handleDownload up to its first await.  A video file matches neither branch.
handleDownload ==
    /\ ~Busy
    /\ DownloadEnabled
    /\ fileType = "video" \/ (Pending < MaxPending /\ Len(delivered) < MaxDeliveries)
    /\ dl' = IF fileType = "video" THEN dl
             ELSE [pc |-> IF fileType = "audio" THEN "arrayBuffer" ELSE "imageLoad",
                   selectedFile |-> selectedFile, fileType |-> fileType,
                   targetFormat |-> targetFormat]
    /\ UNCHANGED <<uiVars, conversionState, encVars, delivered>>

\* selectedFile.arrayBuffer(), then decodeAudioData resolved.
DownloadAwaitResolved ==
    /\ ~Busy
    /\ dl.pc \in {"arrayBuffer", "decodeAudioData"}
    /\ dl' = [dl EXCEPT !.pc = IF @ = "arrayBuffer" THEN "decodeAudioData"
                                 ELSE "startRendering"]
    /\ UNCHANGED <<uiVars, conversionState, encVars, delivered>>

\* offlineContext.startRendering() resolved with the rendered buffer.
StartRenderingResolved ==
    /\ dl.pc = "startRendering"
    /\ renderedBuffer' \in AppAudios
    /\ dl' = [dl EXCEPT !.pc = "header"]
    /\ UNCHANGED <<uiVars, conversionState, view, offset, i, channel, delivered>>

\* An await of handleDownload rejected (the file cannot be decoded, the image
\* cannot be loaded, ...): the catch block.
DownloadAwaitRejected ==
    /\ dl.pc \in {"arrayBuffer", "decodeAudioData", "startRendering", "imageLoad", "pdfSave"}
    /\ DownloadCatch
    /\ UNCHANGED <<uiVars, delivered>>

\* Image branch: the image loaded.  For a PDF target the document is built and
\* saved next; otherwise canvas.toDataURL and link.click() follow at once.
ImageLoadResolved ==
    /\ dl.pc = "imageLoad"
    /\ FileMime(dl.selectedFile)[1] = "image"
    /\ IF dl.targetFormat = "pdf"
       THEN /\ dl' = [dl EXCEPT !.pc = "pdfSave"]
            /\ UNCHANGED delivered
       ELSE /\ delivered' = Append(delivered,
                  [bytes |-> <<>>,
                   type |-> <<"image", dl.targetFormat>>,
                   download |-> <<dl.selectedFile, " - ConvertEase.", dl.targetFormat>>])
            /\ dl' = NoDownload
    /\ UNCHANGED <<uiVars, conversionState, encVars>>

\* Image branch, PDF target: pdfDoc.save() resolved; the Blob and link.click().
PdfSaveResolved ==
    /\ dl.pc = "pdfSave"
    /\ delivered' = Append(delivered,
          [bytes |-> <<>>,
           type |-> <<"application", "pdf">>,
           download |-> <<dl.selectedFile, " - ConvertEase.", "pdf">>])
    /\ dl' = NoDownload
    /\ UNCHANGED <<uiVars, conversionState, encVars>>

Next ==
    \/ LoadFFmpegResolved
    \/ LoadFFmpegRejected
    \/ \E type \in MediaTypes : SelectTab(type)
    \/ \E file \in Files : handleFileSelect(file)
    \/ \E f \in Range(formats.audio) \cup Range(formats.image) \cup Range(formats.video) :
          SelectFormat(f)
    \/ handleConvert
    \/ TimerFires
    \/ ConvertAwaitResolved
    \/ ConvertReadFileResolved
    \/ ConvertAwaitRejected
    \/ handleDownload
    \/ DownloadAwaitResolved
    \/ StartRenderingResolved
    \/ DownloadAwaitRejected
    \/ ImageLoadResolved
    \/ PdfSaveResolved
    \/ WriteHeader
    \/ WriteSample
    \/ Deliver
    \/ DeliverThrows

Spec == Init /\ [][Next]_vars

\* ------------------------------------------------------ reading a WAV back

\* 16-bit little-endian unsigned integer at byte offset off
readUint16(v, off) == v[off + 1] + 256 * v[off + 2]

\* 16-bit little-endian signed integer at byte offset off
readInt16(v, off) ==
    LET u == readUint16(v, off) IN IF u >= 32768 THEN u - 65536 ELSE u

\* 32-bit little-endian unsigned integer at byte offset off
readUint32(v, off) ==
    v[off + 1] + 256 * v[off + 2] + 65536 * v[off + 3] + 16777216 * v[off + 4]

\* The four bytes at off
readTag(v, off) == <<v[off + 1], v[off + 2], v[off + 3], v[off + 4]>>

\* The data section as 16-bit signed samples
readData(v) == [k \in 1..((Len(v) - HeaderSize) \div 2) |-> readInt16(v, HeaderSize + (k - 1) * 2)]

\* The header is in the buffer (the sample loop is running or has ended).
HeaderWritten == dl.pc = "samples"

nch == renderedBuffer.numberOfChannels
len == renderedBuffer.length

\* clamp(s, -1, 1) * 32767 truncated toward zero, for a finite sample num / SampleDen
Quantized(s) ==
    LET c == IF s.num > SampleDen THEN SampleDen
             ELSE IF s.num < -SampleDen THEN -SampleDen ELSE s.num
        p == c * 32767
    IN  IF p >= 0 THEN p \div SampleDen ELSE -((-p) \div SampleDen)

\* The 16-bit value a sample is stored as: a finite sample quantized, NaN as 0,
\* an infinity as the clamped bound.
Expected(s) ==
    IF s.kind = "finite" THEN Quantized(s)
    ELSE IF s.kind = "nan" THEN 0
    ELSE s.num * 32767

\* The samples frame after frame (interleaved)
Framed(buf) ==
    [n \in 1..(buf.length * buf.numberOfChannels) |->
        Expected(buf.channelData[((n - 1) % buf.numberOfChannels) + 1]
                                [((n - 1) \div buf.numberOfChannels) + 1])]

\* The samples channel after channel (deinterleaved)
Planar(buf) ==
    [n \in 1..(buf.length * buf.numberOfChannels) |->
        Expected(buf.channelData[((n - 1) \div buf.length) + 1]
                                [((n - 1) % buf.length) + 1])]

\* ------------------------------------------------------------------ claims

\* C1: the header's ChunkSize (offset 4) is the buffer's actual length - 8 and
\* its Subchunk2Size (offset 40) is samplesPerChannel * numberOfChannels * 2.
C1_HeaderSizes ==
    HeaderWritten =>
        /\ readUint32(view, 4) = Len(view) - 8
        /\ readUint32(view, 40) = len * nch * 2

C1_Witness == LoopDone /\ nch = 2 /\ len = 1 /\ readUint32(view, 4) = 40

\* C2: the sample of frame k, channel c is the 16-bit integer at byte offset
\* 44 + (k * numberOfChannels + c) * 2; the data is never channel after channel
\* where that differs from frame after frame.
C2_Interleaved ==
    LoopDone =>
        /\ \A k \in 0..(len - 1), c \in 0..(nch - 1) :
              readInt16(view, HeaderSize + (k * nch + c) * 2)
                = Expected(renderedBuffer.channelData[c + 1][k + 1])
        /\ Planar(renderedBuffer) # Framed(renderedBuffer)
              => readData(view) # Planar(renderedBuffer)

C2_Witness ==
    /\ LoopDone /\ nch = 3 /\ len = 2
    /\ Planar(renderedBuffer) # Framed(renderedBuffer)
    /\ readData(view) = Framed(renderedBuffer)

\* C3 as stated: the mono round-trip buffer encodes to 52 bytes holding the
\* samples 0, 16383, -16384, 32767.
C3_RoundTripAsStated ==
    (LoopDone /\ renderedBuffer = RoundTripAudio) =>
        /\ Len(view) = 52
        /\ readData(view) = <<0, 16383, -16384, 32767>>

\* C3 amended: the mono round-trip buffer encodes to 52 bytes holding the
\* samples 0, 16383, -16383, 32767 (-0.5 * 32767 = -16383.5 truncated toward zero).
C3_RoundTrip ==
    (LoopDone /\ renderedBuffer = RoundTripAudio) =>
        /\ Len(view) = 52
        /\ readData(view) = <<0, 16383, -16383, 32767>>

C3_Witness ==
    LoopDone /\ renderedBuffer = RoundTripAudio /\ Len(view) = 52 /\ offset = 52

\* Some sample of the buffer is NaN or an infinity.
HasNonFinite(buf) ==
    \E c \in DOMAIN buf.channelData : \E k \in DOMAIN buf.channelData[c] :
        buf.channelData[c][k].kind # "finite"

\* C4: an encoder run on a buffer with a non-finite sample fails: it never
\* completes a WAV byte stream and never delivers one.
C4_FailFast ==
    [][HasNonFinite(renderedBuffer) => (~LoopDone' /\ delivered' = delivered)]_vars

\* The container format of a byte sequence, by its magic numbers.
Container(bytes) ==
    IF Len(bytes) >= 12 /\ readTag(bytes, 0) = <<82, 73, 70, 70>>
                        /\ readTag(bytes, 8) = <<87, 65, 86, 69>>
    THEN "wav" ELSE "other"

\* C5: the bytes delivered for an audio file are in the format their
\* audio/<targetFormat> label and .<targetFormat> extension name.
C5_FormatAgrees ==
    \A n \in DOMAIN delivered :
        delivered[n].type[1] = "audio" =>
            /\ delivered[n].download[3] = delivered[n].type[2]
            /\ Container(delivered[n].bytes) = delivered[n].type[2]

\* C6: +1.0 is stored as 32767 and -1.0 as -32767; no 16-bit slot of the data
\* section ever holds -32768.
C6_Boundary ==
    HeaderWritten =>
        /\ \A n \in DOMAIN readData(view) : readData(view)[n] # -32768
        /\ LoopDone =>
             \A k \in 0..(len - 1), c \in 0..(nch - 1) :
                LET s == renderedBuffer.channelData[c + 1][k + 1]
                    stored == readInt16(view, HeaderSize + (k * nch + c) * 2)
                IN  /\ s = Finite(SampleDen) => stored = 32767
                    /\ s = Finite(-SampleDen) => stored = -32767

C6_Witness ==
    /\ LoopDone
    /\ renderedBuffer.channelData = <<<<Finite(SampleDen), Finite(-SampleDen), NegInf>>>>
    /\ readData(view) = <<32767, -32767, -32767>>

\* C7 as stated: the stereo buffer's data section holds 32767, 0, -32768, 0.
C7_StereoAsStated ==
    (LoopDone /\ renderedBuffer = StereoAudio) =>
        readData(view) = <<32767, 0, -32768, 0>>

\* C7 amended: the stereo buffer's data section is 8 bytes holding, in frame
\* order, 32767, 0, -32767, 0.
C7_Stereo ==
    (LoopDone /\ renderedBuffer = StereoAudio) =>
        /\ Len(view) - HeaderSize = 8
        /\ readData(view) = <<32767, 0, -32767, 0>>

C7_Witness ==
    LoopDone /\ renderedBuffer = StereoAudio /\ readInt16(view, 48) = -32767

\* C8: the buffer is 44 + samplesPerChannel * numberOfChannels * 2 bytes long;
\* with no samples it is the 44-byte header alone and Subchunk2Size is 0.
C8_Length ==
    HeaderWritten =>
        /\ Len(view) = 44 + len * nch * 2
        /\ len = 0 => (Len(view) = 44 /\ readUint32(view, 40) = 0)

C8_Witness == LoopDone /\ len = 0 /\ nch = 2 /\ Len(view) = 44

\* C9: NumChannels, SampleRate, ByteRate and BlockAlign read back as
\* numberOfChannels, sampleRate, sampleRate * numberOfChannels * 2 and
\* numberOfChannels * 2, for every channel count.
C9_FormatFields ==
    HeaderWritten =>
        /\ readUint16(view, 22) = nch
        /\ readUint32(view, 24) = renderedBuffer.sampleRate
        /\ readUint32(view, 28) = renderedBuffer.sampleRate * nch * 2
        /\ readUint16(view, 32) = nch * 2

C9_Witness ==
    /\ HeaderWritten /\ nch = 6
    /\ readUint16(view, 22) = 6
    /\ readUint16(view, 32) = 12
    /\ readUint32(view, 28) = renderedBuffer.sampleRate * 12

\* C10: the constant header fields: "RIFF", "WAVE", "fmt ", "data",
\* Subchunk1Size 16, AudioFormat 1, BitsPerSample 16, and the sample data
\* written from offset 44 on.
C10_ConstantFields ==
    HeaderWritten =>
        /\ readTag(view, 0) = <<82, 73, 70, 70>>
        /\ readTag(view, 8) = <<87, 65, 86, 69>>
        /\ readTag(view, 12) = <<102, 109, 116, 32>>
        /\ readTag(view, 36) = <<100, 97, 116, 97>>
        /\ readUint32(view, 16) = 16
        /\ readUint16(view, 20) = 1
        /\ readUint16(view, 34) = 16
        /\ offset = 44 + (i * nch + channel) * 2

C10_Witness ==
    HeaderWritten /\ i = 0 /\ channel = 0 /\ offset = 44 /\ len = 3 /\ Len(view) = 50

\* A 16-bit and a 32-bit integer as little-endian bytes
LE16(x) == <<x % 256, (x \div 256) % 256>>
LE32(x) == <<x % 256, (x \div 256) % 256, (x \div 65536) % 256, (x \div 16777216) % 256>>

RECURSIVE SampleBytes(_)
SampleBytes(samples) ==
    IF samples = <<>> THEN <<>>
    ELSE LE16(Head(samples) % 65536) \o SampleBytes(Tail(samples))

\* The canonical 16-bit PCM WAV file of a buffer, as a function of the buffer alone
RefWav(buf) ==
    LET nc == buf.numberOfChannels
        n == buf.length * nc
    IN  <<82, 73, 70, 70>> \o LE32(36 + 2 * n) \o <<87, 65, 86, 69>>
        \o <<102, 109, 116, 32>> \o LE32(16) \o LE16(1) \o LE16(nc)
        \o LE32(buf.sampleRate) \o LE32(buf.sampleRate * nc * 2) \o LE16(nc * 2)
        \o LE16(16) \o <<100, 97, 116, 97>> \o LE32(2 * n)
        \o SampleBytes([k \in 1..n |-> Framed(buf)[k]])

\* C11: the encoded bytes are a function of the rendered buffer alone: in
\* whatever state of the app an encoding ends (target format, status, selected
\* file), the buffer holds the same bytes, and so does every delivered audio
\* artifact.
C11_Deterministic ==
    /\ LoopDone => view = RefWav(renderedBuffer)
    /\ \A n \in DOMAIN delivered :
          delivered[n].type[1] = "audio" =>
              \E a \in AppAudios : delivered[n].bytes = RefWav(a)

C11_Witness ==
    /\ LoopDone
    /\ dl.targetFormat = "ogg"
    /\ targetFormat # dl.targetFormat
    /\ selectedFile # dl.selectedFile
    /\ conversionState.status = "error"

\* C12: a failing decode or delivery step of an audio download sets the status
\* to 'error' with a message, delivers nothing and ends the attempt; a new
\* attempt starts only from the Download button, which an 'error' status
\* does not offer.
C12_FailureSurfaced ==
    [][/\ ((DownloadAwaitRejected \/ DeliverThrows) /\ dl.fileType = "audio") =>
             /\ conversionState'.status = "error"
             /\ conversionState'.message # <<>>
             /\ delivered' = delivered
             /\ dl'.pc = "idle"
       /\ (dl.pc = "idle" /\ dl'.pc # "idle") =>
             /\ conversionState.status = "done"
             /\ selectedFile # NoFile
             /\ dl'.pc \in {"arrayBuffer", "imageLoad"}]_vars

C12_Witness ==
    /\ conversionState =
         State("error", <<"Error processing the", "audio", "file. Please try again.">>)
    /\ dl.pc = "idle"
    /\ delivered = <<>>
    /\ selectedFile = "tone.wav"

\* C13: every finite sample is stored as clamp(s, -1, 1) * 32767 truncated
\* toward zero, so a sample above 1.0 is stored as 32767 and one below -1.0 as
\* -32767, and every stored value lies in [-32767, 32767].
C13_Quantization ==
    /\ HeaderWritten =>
          \A n \in DOMAIN readData(view) : readData(view)[n] \in -32767..32767
    /\ LoopDone =>
          \A k \in 0..(len - 1), c \in 0..(nch - 1) :
             LET s == renderedBuffer.channelData[c + 1][k + 1]
                 stored == readInt16(view, HeaderSize + (k * nch + c) * 2)
             IN  s.kind = "finite" =>
                    /\ stored = Quantized(s)
                    /\ s.num > SampleDen => stored = 32767
                    /\ s.num < -SampleDen => stored = -32767

C13_Witness ==
    /\ LoopDone
    /\ renderedBuffer.channelData = <<<<Finite(3), Finite(-3), Finite(-1)>>>>
    /\ readData(view) = <<32767, -32767, -16383>>

\* C14: the status becomes 'done' only as the completion of the conversion in
\* progress for the selected file: a step that sets 'done' starts in
\* 'converting', with the file the conversion was started for still selected,
\* and never replaces the 'error' status of a rejected selection.
C14_DoneIsFresh ==
    [][(conversionState'.status = "done" /\ conversionState.status # "done") =>
          /\ conversionState.status = "converting"
          /\ conversionState #
               State("error", <<"Please select an audio, video, image or document file">>)
          /\ ConvertReadFileResolved => convertJob.selectedFile = selectedFile]_vars

\* C15: whenever Convert starts a conversion or Download starts a download,
\* the target format is one of the formats of the selected file's detected
\* type.
C15_FormatInFamily ==
    [][(\/ (conversionState'.status = "converting" /\ conversionState.status # "converting")
        \/ (dl.pc = "idle" /\ dl'.pc # "idle")) =>
          targetFormat \in Range(formats[fileType])]_vars

\* C16: with an audio or image file selected and the status 'idle', a click on
\* Convert starts the conversion (status 'converting', from which the timer
\* leads to 'done') whether or not the video engine has loaded; stated for the
\* states in which the engine's load has settled.
C16_ConvertStarts ==
    (/\ selectedFile # NoFile
     /\ fileType \in {"audio", "image"}
     /\ conversionState.status = "idle"
     /\ ffmpegPc # "loading"
     /\ ~Busy
     /\ Pending < MaxPending) =>
        ENABLED (handleConvert /\ conversionState'.status = "converting")

\* C17: during the sample-writing pass the write offset is 44 plus two bytes
\* per (frame, channel) pair already written and never exceeds the buffer; the
\* pass ends with the offset equal to the buffer's length; every pass of the
\* loop body writes inside the buffer, advances the offset by exactly 2,
\* changes no byte outside the two at the offset (so no header byte and no
\* slot written earlier), and never throws.
C17_WritePass ==
    /\ [](HeaderWritten =>
            /\ offset = HeaderSize + 2 * (i * nch + channel)
            /\ offset <= Len(view)
            /\ offset < Len(view) => ~LoopDone
            /\ LoopDone => offset = Len(view))
    /\ [][(HeaderWritten /\ ~LoopDone) =>
            /\ dl'.pc = "samples"
            /\ offset >= HeaderSize
            /\ offset + 2 <= Len(view)
            /\ offset' = offset + 2
            /\ Len(view') = Len(view)
            /\ \A k \in 1..Len(view) :
                  k \notin {offset + 1, offset + 2} => view'[k] = view[k]]_vars

C17_Witness ==
    /\ LoopDone
    /\ nch = 3
    /\ len = 1
    /\ offset = 50
    /\ Len(view) = 50

====
